---- MODULE Spec2Model ----
(***************************************************************************)
(* Model of convert_sprite.py: the RGBA tile-sheet to bitplane encoder.    *)
(* convert() is modelled statement block by statement block; get_shade and *)
(* get_mask are operators.  A pixel is <<red, alpha>> (the only channels   *)
(* the encoder reads).                                                     *)
(***************************************************************************)
EXTENDS Integers, Sequences, FiniteSets

VARIABLES
    imw, imh, impix,  \* the decoded image file: width, height, getdata()
    shades, sw, sh, num,   \* arguments of convert (sw, sh, num: None = unset)
    pixels, masked,   \* locals of convert
    w, h, nw, nh, sp,
    bytes,            \* the output buffer
    kinds,            \* history: which statement appended each byte of bytes
    n, shade, p, ix,  \* loop counters
    rgba,             \* last pixel fetched / argument of get_shade
    reads,            \* history: the pixel fetches of the last column packed
    ret,              \* return value of a direct get_shade call
    pc, result

vars == << imw, imh, impix, shades, sw, sh, num, pixels, masked, w, h, nw, nh,
           sp, bytes, kinds, n, shade, p, ix, rgba, reads, ret, pc, result >>

----------------------------------------------------------------------------
(* Bounds of the explored inputs *)
MaxW == 3
MaxH == 2
MaxS == 3
MaxNum == 2
MaxCoef == 1
MaxFrames == 30

(* Program constants *)
ByteMax == 255
MinShades == 2
MaxShades == 4
MaskLevel == 128
OpaqueAlpha == 255
ShadeBase == 254
PageRows == 8

None == -1

Errors == {"InvalidShades", "InvalidDimensions", "ZeroDivisionError",
           "ValueError", "IndexError"}

(* pixel values the generated images are made of: <<red, alpha>> *)
Palette == << <<0, 255>>, <<100, 200>>, <<150, 255>>, <<255, 0>> >>

(* image sizes: small sheets, two tall ones (more than one page), and two   *)
(* whose side does not fit in a byte                                        *)
Dims == { <<a, b>> : a \in 1..MaxW, b \in 1..MaxH }
        \cup { <<1, PageRows + 1>>, <<MaxW, PageRows + 2>> }
        \cup { <<ByteMax + 1, 1>>, <<1, ByteMax + 1>> }

FrameSizes == {None} \cup (0..MaxS) \cup {ByteMax + 1}
FrameCounts == {None} \cup (0..MaxNum)

(* the number of frames a call asks for (0 when the division fails) *)
DefaultCount(iw, ih, fw, fh, c) ==
    IF c # None THEN c
    ELSE IF fw = 0 \/ fh = 0 THEN 0
    ELSE (iw \div (IF fw = None THEN iw ELSE fw)) * (ih \div (IF fh = None THEN ih ELSE fh))

(* an image file: pixel (x, y) is a palette entry chosen by a linear pattern *)
GenPixels(iw, ih, a, b, c) ==
    [i \in 0..(iw * ih - 1) |->
        Palette[((a * (i % iw) + b * (i \div iw) + c) % Len(Palette)) + 1]]

----------------------------------------------------------------------------
(* get_shade, get_mask *)
get_shade_strict(px, shades_, shade_) ==
    LET w_ == (ShadeBase + shades_) \div shades_
        b_ == (shade_ + 1) * w_
    IN  IF px[1] > b_ THEN 1 ELSE 0

get_shade_below(px, shades_, shade_) ==
    LET w_ == (ShadeBase + shades_) \div shades_
        b_ == (shade_ + 1) * w_
    IN  IF px[1] < b_ THEN 1 ELSE 0

get_shade(px, shades_, shade_) ==
    LET w_ == (ShadeBase + shades_) \div shades_
        b_ == (shade_ + 1) * w_
    IN  IF px[1] >= b_ THEN 1 ELSE 0

get_mask(px) == IF px[2] >= MaskLevel THEN 1 ELSE 0

ScanMaskedLast(pix) == pix[Cardinality(DOMAIN pix) - 1][2] < OpaqueAlpha

(* the pre-scan of the whole image for a non-opaque pixel *)
ScanMasked(pix) == \E i \in DOMAIN pix : pix[i][2] < OpaqueAlpha

PageCountFloor(sh_) == sh_ \div PageRows

PageCount(sh_) == (sh_ + 7) \div PageRows

FrameOriginX(n_, nw_, sw_) == (n_ % nw_) * sw_
FrameOriginY(n_, nw_, sh_) == (n_ \div nw_) * sh_

PixelIndexSwapped(y_, w_, x_) == x_ * w_ + y_

PixelIndex(y_, w_, x_) == y_ * w_ + x_

RowBreakNever(y_, sh_) == FALSE

RowBreak(y_, sh_) == y_ >= sh_

(* Python list indexing: i is valid iff -len <= i < len *)
IndexOk(pix, i) == i >= -(Cardinality(DOMAIN pix)) /\ i < Cardinality(DOMAIN pix)
ListGet(pix, i) == IF i < 0 THEN pix[i + Cardinality(DOMAIN pix)] ELSE pix[i]

(* byte | (bit << iy) *)
OrShift(byte, bit, iy) ==
    IF bit = 1 /\ (byte \div (2 ^ iy)) % 2 = 0 THEN byte + 2 ^ iy ELSE byte

ByteArrayOkUnchecked(vals) == TRUE

(* bytearray([...]) accepts only values in range(0, 256) *)
ByteArrayOk(vals) == \A k \in 1..Len(vals) : vals[k] >= 0 /\ vals[k] <= ByteMax
ByteArray(vals) == vals

(* the inner loop over iy for one column: st = [byte, mask, reads, err, px] *)
RECURSIVE PackBits(_, _)
PackBits(iy, st) ==
    IF iy >= PageRows THEN st
    ELSE LET y0 == p * PageRows + iy IN
         IF RowBreak(y0, sh) THEN st
         ELSE LET x == FrameOriginX(n, nw, sw) + ix
                  y == y0 + FrameOriginY(n, nw, sh)
                  i == PixelIndex(y, w, x)
                  rd == st.reads \cup { [n |-> n, x |-> x, y |-> y, i |-> i] }
              IN  IF ~IndexOk(pixels, i)
                  THEN [st EXCEPT !.reads = rd, !.err = TRUE]
                  ELSE LET px == ListGet(pixels, i) IN
                       PackBits(iy + 1,
                          [byte  |-> OrShift(st.byte, get_shade(px, shades, shade), iy),
                           mask  |-> OrShift(st.mask, get_mask(px), iy),
                           reads |-> rd, err |-> FALSE, px |-> px])

NextCountersPageOuter(n_, shade_, p_, ix_) ==
    IF ix_ + 1 < sw THEN << n_, shade_, p_, ix_ + 1 >>
    ELSE IF shade_ + 1 < shades - 1 THEN << n_, shade_ + 1, p_, 0 >>
    ELSE IF p_ + 1 < sp THEN << n_, 0, p_ + 1, 0 >>
    ELSE << n_ + 1, 0, 0, 0 >>

(* successor of the loop counters <<n, shade, p, ix>> in the nesting        *)
(* for n / for shade / for p / for ix                                       *)
NextCounters(n_, shade_, p_, ix_) ==
    IF ix_ + 1 < sw THEN << n_, shade_, p_, ix_ + 1 >>
    ELSE IF p_ + 1 < sp THEN << n_, shade_, p_ + 1, 0 >>
    ELSE IF shade_ + 1 < shades - 1 THEN << n_, shade_ + 1, 0, 0 >>
    ELSE << n_ + 1, 0, 0, 0 >>

----------------------------------------------------------------------------
Init ==
    /\ \E d \in Dims, a \in 0..MaxCoef, b \in 0..MaxCoef, c \in 0..(Len(Palette) - 1) :
          /\ imw = d[1]
          /\ imh = d[2]
          /\ impix = GenPixels(d[1], d[2], a, b, c)
    /\ shades \in (MinShades - 1)..(MaxShades + 1)
    /\ sw \in FrameSizes
    /\ sh \in FrameSizes
    /\ num \in FrameCounts
    /\ DefaultCount(imw, imh, sw, sh, num) <= MaxFrames
    /\ pixels = << >>
    /\ masked = FALSE
    /\ w = 0 /\ h = 0 /\ nw = 0 /\ nh = 0 /\ sp = 0
    /\ bytes = << >>
    /\ kinds = << >>
    /\ n = 0 /\ shade = 0 /\ p = 0 /\ ix = 0
    /\ rgba = << 0, 0 >>
    /\ reads = {}
    /\ ret = 0
    /\ pc = "start"
    /\ result = "none"

(* lines 19-21 *)
CheckShades ==
    /\ pc = "start"
    /\ IF ~(shades >= MinShades /\ shades <= MaxShades)
       THEN pc' = "done" /\ result' = "InvalidShades"
       ELSE pc' = "open" /\ UNCHANGED result
    /\ UNCHANGED << imw, imh, impix, shades, sw, sh, num, pixels, masked, w, h,
                    nw, nh, sp, bytes, kinds, n, shade, p, ix, rgba, reads, ret >>

(* lines 23-30 *)
OpenImage ==
    /\ pc = "open"
    /\ pixels' = impix
    /\ masked' = ScanMasked(impix)
    /\ pc' = "geom"
    /\ UNCHANGED << imw, imh, impix, shades, sw, sh, num, w, h, nw, nh, sp,
                    bytes, kinds, n, shade, p, ix, rgba, reads, ret, result >>

(* lines 32-39 *)
Geometry ==
    /\ pc = "geom"
    /\ LET sw1 == IF sw = None THEN imw ELSE sw
           sh1 == IF sh = None THEN imh ELSE sh
       IN  /\ w' = imw
           /\ h' = imh
           /\ sw' = sw1
           /\ sh' = sh1
           /\ IF sw1 = 0
              THEN /\ pc' = "done" /\ result' = "ZeroDivisionError"
                   /\ UNCHANGED << nw, nh, num, sp >>
              ELSE IF sh1 = 0
              THEN /\ pc' = "done" /\ result' = "ZeroDivisionError"
                   /\ nw' = imw \div sw1
                   /\ UNCHANGED << nh, num, sp >>
              ELSE /\ nw' = imw \div sw1
                   /\ nh' = imh \div sh1
                   /\ num' = IF num = None THEN (imw \div sw1) * (imh \div sh1) ELSE num
                   /\ sp' = PageCount(sh1)
                   /\ pc' = "check"
                   /\ UNCHANGED result
    /\ UNCHANGED << imw, imh, impix, shades, pixels, masked, bytes, kinds,
                    n, shade, p, ix, rgba, reads, ret >>

(* lines 41-43 *)
CheckGeometry ==
    /\ pc = "check"
    /\ IF nw * nh <= 0
       THEN pc' = "done" /\ result' = "InvalidDimensions"
       ELSE pc' = "header" /\ UNCHANGED result
    /\ UNCHANGED << imw, imh, impix, shades, sw, sh, num, pixels, masked, w, h,
                    nw, nh, sp, bytes, kinds, n, shade, p, ix, rgba, reads, ret >>

(* line 45 *)
Header ==
    /\ pc = "header"
    /\ IF ByteArrayOk(<< sw, sh >>)
       THEN /\ bytes' = ByteArray(<< sw, sh >>)
            /\ kinds' = << "hdr", "hdr" >>
            /\ pc' = "loop"
            /\ UNCHANGED result
       ELSE /\ pc' = "done" /\ result' = "ValueError"
            /\ UNCHANGED << bytes, kinds >>
    /\ UNCHANGED << imw, imh, impix, shades, sw, sh, num, pixels, masked, w, h,
                    nw, nh, sp, n, shade, p, ix, rgba, reads, ret >>

(* lines 52-66: one iteration of the innermost for-ix loop *)
PackColumn ==
    /\ pc = "loop"
    /\ n < num
    /\ LET st == PackBits(0, [byte |-> 0, mask |-> 0, reads |-> {},
                              err |-> FALSE, px |-> rgba])
       IN  /\ reads' = st.reads
           /\ rgba' = st.px
           /\ IF st.err
              THEN /\ pc' = "done" /\ result' = "IndexError"
                   /\ UNCHANGED << bytes, kinds, n, shade, p, ix >>
              ELSE /\ bytes' = IF masked
                               THEN bytes \o ByteArray(<< st.byte >>) \o ByteArray(<< st.mask >>)
                               ELSE bytes \o ByteArray(<< st.byte >>)
                   /\ kinds' = IF masked THEN kinds \o << "byte", "mask" >>
                               ELSE kinds \o << "byte" >>
                   /\ LET c == NextCounters(n, shade, p, ix)
                      IN  n' = c[1] /\ shade' = c[2] /\ p' = c[3] /\ ix' = c[4]
                   /\ UNCHANGED << pc, result >>
    /\ UNCHANGED << imw, imh, impix, shades, sw, sh, num, pixels, masked, w, h,
                    nw, nh, sp, ret >>

(* line 68 *)
Return ==
    /\ pc = "loop"
    /\ ~(n < num)
    /\ pc' = "done"
    /\ result' = "stream"
    /\ UNCHANGED << imw, imh, impix, shades, sw, sh, num, pixels, masked, w, h,
                    nw, nh, sp, bytes, kinds, n, shade, p, ix, rgba, reads, ret >>

Next == \/ CheckShades
        \/ OpenImage
        \/ Geometry
        \/ CheckGeometry
        \/ Header
        \/ PackColumn
        \/ Return

Spec == Init /\ [][Next]_vars

----------------------------------------------------------------------------
(* get_shade on its own: every brightness, shade count and plane index *)
InitShade ==
    /\ rgba \in { << r, OpaqueAlpha >> : r \in 0..ByteMax }
    /\ shades \in MinShades..MaxShades
    /\ shade \in 0..(MaxShades - 2)
    /\ shade <= shades - 2
    /\ ret = -1
    /\ pc = "call"
    /\ imw = 1 /\ imh = 1 /\ impix = << >>
    /\ sw = None /\ sh = None /\ num = None
    /\ pixels = << >>
    /\ masked = FALSE
    /\ w = 0 /\ h = 0 /\ nw = 0 /\ nh = 0 /\ sp = 0
    /\ bytes = << >>
    /\ kinds = << >>
    /\ n = 0 /\ p = 0 /\ ix = 0
    /\ reads = {}
    /\ result = "none"

CallGetShade ==
    /\ pc = "call"
    /\ ret' = get_shade(rgba, shades, shade)
    /\ pc' = "returned"
    /\ UNCHANGED << imw, imh, impix, shades, sw, sh, num, pixels, masked, w, h,
                    nw, nh, sp, bytes, kinds, n, shade, p, ix, rgba, reads, result >>

NextShade == CallGetShade

SpecShade == InitShade /\ [][NextShade]_vars

----------------------------------------------------------------------------
(* Vocabulary of the properties, written from the stream format *)
CeilDiv(a, b) == (a + b - 1) \div b

(* MaskFlag of the image file: 1 iff some pixel has alpha < 255 *)
MaskFlag == IF \E i \in DOMAIN impix : impix[i][2] < 255 THEN 1 ELSE 0

Returned == pc = "done" /\ result = "stream"

(* bytes per data unit, and number of whole data units in the buffer *)
UnitLen == 1 + MaskFlag
UnitCount == (Len(bytes) - 2) \div UnitLen

(* coordinates of the k-th data unit in frame / plane / page / column order *)
UnitCol(k) == k % sw
UnitPage(k) == (k \div sw) % CeilDiv(sh, 8)
UnitPlane(k) == (k \div (sw * CeilDiv(sh, 8))) % (shades - 1)
UnitFrame(k) == k \div (sw * CeilDiv(sh, 8) * (shades - 1))

BrightByte(k) == bytes[3 + k * UnitLen]
MaskByte(k) == bytes[4 + k * UnitLen]

Bit(v, j) == (v \div (2 ^ j)) % 2

(* pixel (x, y) of the image file *)
ImagePixel(x, y) == impix[y * imw + x]

TileX(k) == (UnitFrame(k) % (imw \div sw)) * sw
TileY(k) == (UnitFrame(k) \div (imw \div sw)) * sh

(* pixel i of the image lies in one of the first num tiles *)
InEncodedFrames(i) ==
    LET x == i % imw
        y == i \div imw
    IN  /\ x < nw * sw
        /\ y < nh * sh
        /\ (y \div sh) * nw + (x \div sw) < num

----------------------------------------------------------------------------
(* C1: a returned stream has length exactly                                *)
(* 2 + num*(shades-1)*ceil(sh/8)*sw*(1+maskFlag) and starts with sw, sh.   *)
C1_LengthAndHeader ==
    (Returned /\ shades \in 2..4 /\ nw * nh > 0 /\ num >= 0 /\ num <= nw * nh
        /\ sw <= 255 /\ sh <= 255)
    => /\ Len(bytes) = 2 + num * (shades - 1) * CeilDiv(sh, 8) * sw * (1 + MaskFlag)
       /\ bytes[1] = sw
       /\ bytes[2] = sh

C1_Witness ==
    /\ Returned
    /\ num >= 2 /\ shades = 4 /\ MaskFlag = 1
    /\ sh > 8 /\ sh % 8 # 0 /\ nw >= 2
    /\ Len(bytes) > 2

(* C2 as stated: get_shade returns 1 iff                                   *)
(* brightness >= (planeIndex+1) * ceil(254/shades).                        *)
C2_CeilThreshold ==
    pc = "returned"
    => (ret = 1 <=> rgba[1] >= (shade + 1) * CeilDiv(254, shades))

(* C2 amended: get_shade returns 1 iff brightness >= the plane's threshold *)
(* (planeIndex+1) * (floor(254/shades) + 1), that is 128 for shades=2;     *)
(* 85, 170 for shades=3; 64, 128, 192 for shades=4; and 0 otherwise.       *)
ThresholdTable == [s \in 2..4 |->
    CASE s = 2 -> << 128 >>
      [] s = 3 -> << 85, 170 >>
      [] s = 4 -> << 64, 128, 192 >>]

C2_Thresholds ==
    pc = "returned"
    => /\ ret \in {0, 1}
       /\ ret = 1 <=> rgba[1] >= ThresholdTable[shades][shade + 1]
       /\ ThresholdTable[shades][shade + 1] = (shade + 1) * ((254 \div shades) + 1)

C2_Witness ==
    /\ pc = "returned"
    /\ shades = 2 /\ shade = 0
    /\ rgba[1] = 128 /\ ret = 1

(* C3: the mask decision is global: with a non-opaque pixel anywhere in    *)
(* the grid every brightness byte is followed by exactly one mask byte,    *)
(* and with none the buffer holds no mask byte.                            *)
C3_MaskUniform ==
    /\ MaskFlag = 1 =>
          \A j \in 1..Len(kinds) :
             /\ kinds[j] = "byte" => (j + 1 <= Len(kinds) /\ kinds[j + 1] = "mask")
             /\ kinds[j] = "mask" => kinds[j - 1] = "byte"
    /\ MaskFlag = 0 => \A j \in 1..Len(kinds) : kinds[j] # "mask"
    /\ Len(kinds) = Len(bytes)
    /\ \A j \in 1..Len(kinds) : (kinds[j] = "hdr") <=> (j <= 2)
    /\ Returned =>
          Cardinality({ j \in 1..Len(kinds) : kinds[j] = "byte" })
             = num * (shades - 1) * CeilDiv(sh, 8) * sw

C3_Witness ==
    /\ Returned
    /\ num >= 1
    /\ MaskFlag = 1
    /\ \A i \in DOMAIN impix : impix[i][2] < 255 => ~InEncodedFrames(i)
    /\ \E j \in 1..Len(kinds) : kinds[j] = "mask"

(* C4: when sh is not a multiple of 8, the top ceil(sh/8)*8 - sh bits of   *)
(* every brightness and mask byte of the last page are 0, and no row at    *)
(* offset >= sh within the frame is read.                                  *)
C4_LastPageTruncated ==
    (pc \in {"loop", "done"} /\ Len(bytes) >= 2 /\ sh % 8 # 0)
    => /\ \A k \in 0..(UnitCount - 1) :
             UnitPage(k) = CeilDiv(sh, 8) - 1
             => \A j \in (sh - 8 * (CeilDiv(sh, 8) - 1))..7 :
                   /\ Bit(BrightByte(k), j) = 0
                   /\ MaskFlag = 1 => Bit(MaskByte(k), j) = 0
       /\ \A r \in reads : r.y - (r.n \div nw) * sh < sh

(* a last-page byte with every row of the frame set, above a pixel of the  *)
(* next tile that is bright and opaque                                     *)
C4_Witness ==
    /\ Returned
    /\ sh % 8 # 0
    /\ MaskFlag = 1
    /\ \E k \in 0..(UnitCount - 1) :
          /\ UnitPage(k) = CeilDiv(sh, 8) - 1
          /\ BrightByte(k) = 2 ^ (sh - 8 * UnitPage(k)) - 1
          /\ TileY(k) + sh < imh
          /\ LET below == ImagePixel(TileX(k) + UnitCol(k), TileY(k) + sh)
             IN  get_shade(below, shades, UnitPlane(k)) = 1 /\ below[2] >= 128

(* C5: data unit k = ((n*(shades-1) + s)*ceil(sh/8) + p)*sw + ix holds,    *)
(* in bit iy of its brightness byte, the quantizer result for plane s of   *)
(* the red channel of pixel (bx+ix, by+p*8+iy), and in bit iy of its mask  *)
(* byte whether that pixel's alpha is >= 128 (rows of the frame only).     *)
C5_Layout ==
    Returned =>
       \A k \in 0..(UnitCount - 1) :
          \A iy \in 0..7 :
             UnitPage(k) * 8 + iy < sh =>
                LET px == ImagePixel(TileX(k) + UnitCol(k),
                                     TileY(k) + UnitPage(k) * 8 + iy)
                IN  /\ Bit(BrightByte(k), iy) = get_shade(px, shades, UnitPlane(k))
                    /\ MaskFlag = 1 =>
                          Bit(MaskByte(k), iy) = (IF px[2] >= 128 THEN 1 ELSE 0)

C5_Witness ==
    /\ Returned
    /\ num >= 2 /\ nw >= 2 /\ shades >= 3 /\ sh > 8
    /\ MaskFlag = 1
    /\ \E k \in 0..(UnitCount - 1) :
          /\ UnitFrame(k) >= 1 /\ UnitPlane(k) >= 1 /\ UnitPage(k) >= 1
          /\ BrightByte(k) # 0

(* C6 as stated: whenever sw or sh is zero or exceeds the image (so that   *)
(* nw*nh <= 0), convert reports the invalid-geometry error and builds no   *)
(* stream.                                                                 *)
C6_GeometryReported ==
    (pc = "done" /\ shades \in 2..4
        /\ (sw = 0 \/ sh = 0 \/ sw > imw \/ sh > imh))
    => result = "InvalidDimensions" /\ bytes = << >>

(* C7: with sw > 255 or sh > 255 the call ends in an error and no buffer   *)
(* with a header is ever built, whatever the image and shade count.        *)
C7_HeaderOverflowFails ==
    (sw > 255 \/ sh > 255)
    => /\ bytes = << >>
       /\ result # "stream"
       /\ pc = "done" => result \in Errors

C7_Witness ==
    /\ pc = "done"
    /\ result = "ValueError"
    /\ shades \in 2..4
    /\ sw > 255 \/ sh > 255
    /\ nw * nh > 0

(* C8 as stated: every error is detected before any byte is appended, so   *)
(* no call that ends in an error has appended a header or data byte.       *)
C8_AllOrNothing ==
    (pc = "done" /\ result \in Errors) => bytes = << >>

(* C9: with sw, sh >= 1, nw*nh > 0 and 0 <= num <= nw*nh every pixel index *)
(* read is inside the pixel list and addresses a pixel of the frame's own  *)
(* rectangle.                                                              *)
C9_ReadsInFrame ==
    (pc \in {"loop", "done"} /\ sw >= 1 /\ sh >= 1 /\ nw * nh > 0
        /\ num >= 0 /\ num <= nw * nh)
    => \A r \in reads :
          LET bx == (r.n % (imw \div sw)) * sw
              by == (r.n \div (imw \div sw)) * sh
          IN  /\ 0 <= r.i /\ r.i < imw * imh
              /\ r.i % imw >= bx /\ r.i % imw < bx + sw
              /\ r.i \div imw >= by /\ r.i \div imw < by + sh

C9_Witness ==
    /\ pc \in {"loop", "done"}
    /\ sw >= 1 /\ sh >= 1 /\ nw * nh > 0
    /\ num <= nw * nh
    /\ imw % sw # 0 /\ imh % sh # 0
    /\ \E r \in reads : r.n >= 1 /\ r.y >= 1 /\ r.x >= 1

(* C10: within a frame, page and column the bits of plane s+1 are a subset *)
(* of the bits of plane s, and the mask byte is the same in every plane.   *)
C10_PlanesNested ==
    Returned =>
       \A k \in 0..(UnitCount - 1) :
          UnitPlane(k) + 1 <= shades - 2 =>
             LET k2 == k + sw * CeilDiv(sh, 8)
             IN  /\ \A j \in 0..7 : Bit(BrightByte(k2), j) = 1 => Bit(BrightByte(k), j) = 1
                 /\ MaskFlag = 1 => MaskByte(k2) = MaskByte(k)

C10_Witness ==
    /\ Returned
    /\ shades = 4 /\ MaskFlag = 1
    /\ \E k \in 0..(UnitCount - 1) :
          /\ UnitPlane(k) = 0
          /\ BrightByte(k + sw * CeilDiv(sh, 8)) # BrightByte(k)
          /\ BrightByte(k + sw * CeilDiv(sh, 8)) # 0
          /\ MaskByte(k) # 0

====
